---- MODULE Spec2Model ----
(***************************************************************************)
(* quickenv: a manager of named Python virtual environments kept under one *)
(* registry root, with a shared shell alias table (src/quickenv/__init__.py)*)
(*                                                                         *)
(* Text is modelled as the program sees it: a string is a sequence of      *)
(* one-character strings, a file is the string of its bytes, and the       *)
(* file system is the set of directories plus a map from the paths of the  *)
(* regular files to their contents.  Every command-line invocation         *)
(* (the group callback followed by the subcommand) is one action.          *)
(***************************************************************************)
EXTENDS Naturals, Sequences, FiniteSets

VARIABLES
    dirs,          \* the directories that exist (absolute paths)
    files,         \* regular files under the registry root: path -> content
    bash_aliases,  \* content of ~/.bash_aliases ("" when the file is absent)
    last,          \* the last invocation: its arguments, exit status, output
    pc             \* the invocation under way and the step it is at, when
                   \* invocations are taken one file-system step at a time

vars == <<dirs, files, bash_aliases, last, pc>>

----------------------------------------------------------------------------
(* Strings *)

\* The characters that occur, in code-point order (Python compares and sorts
\* str values by code point).
Alphabet ==
    << "\t", "\n", " ", "\"", "(", ")", "-", ".", "/", "1", ":", "=", "A", "_",
       "a", "b", "c", "d", "e", "f", "g", "h", "i", "j", "k", "l", "m",
       "n", "o", "p", "q", "r", "s", "t", "u", "v", "w", "x", "y", "z", "~" >>

Ord(c) == CHOOSE i \in 1..Len(Alphabet) : Alphabet[i] = c

AlnumChars ==
    { "1", "A", "a", "b", "c", "d", "e", "f", "g", "h", "i", "j", "k", "l", "m",
      "n", "o", "p", "q", "r", "s", "t", "u", "v", "w", "x", "y", "z" }

WhitespaceChars == { " ", "\t", "\n" }

\* str.isalnum(): every character alphanumeric and at least one character
isalnum(s) == Len(s) > 0 /\ \A i \in 1..Len(s) : s[i] \in AlnumChars

\* c in s, for a single character c
HasChar(c, s) == \E i \in 1..Len(s) : s[i] = c

\* str.startswith
startswith(s, p) == Len(p) <= Len(s) /\ SubSeq(s, 1, Len(p)) = p

\* str.strip(): leading and trailing whitespace removed
RECURSIVE lstrip(_)
lstrip(s) ==
    IF s # <<>> /\ Head(s) \in WhitespaceChars THEN lstrip(Tail(s)) ELSE s

RECURSIVE rstrip(_)
rstrip(s) ==
    IF s # <<>> /\ s[Len(s)] \in WhitespaceChars
    THEN rstrip(SubSeq(s, 1, Len(s) - 1)) ELSE s

strip(s) == rstrip(lstrip(s))

\* str.strip('\n'): leading and trailing newlines removed
RECURSIVE lstripNL(_)
lstripNL(s) == IF s # <<>> /\ Head(s) = "\n" THEN lstripNL(Tail(s)) ELSE s

RECURSIVE rstripNL(_)
rstripNL(s) ==
    IF s # <<>> /\ s[Len(s)] = "\n"
    THEN rstripNL(SubSeq(s, 1, Len(s) - 1)) ELSE s

stripNL(s) == rstripNL(lstripNL(s))

\* file.readlines(): the content cut after every newline, newlines kept; a
\* last line without a newline is a line too
RECURSIVE readlinesFrom(_, _)
readlinesFrom(s, cur) ==
    IF s = <<>> THEN (IF cur = <<>> THEN <<>> ELSE <<cur>>)
    ELSE IF Head(s) = "\n"
         THEN <<Append(cur, "\n")>> \o readlinesFrom(Tail(s), <<>>)
         ELSE readlinesFrom(Tail(s), Append(cur, Head(s)))

readlines(s) == readlinesFrom(s, <<>>)

\* file.writelines(lines): the lines written one after the other
RECURSIVE writelines(_)
writelines(ls) == IF ls = <<>> THEN <<>> ELSE Head(ls) \o writelines(Tail(ls))

\* str < str: lexicographic by code point
RECURSIVE StrLess(_, _)
StrLess(s, t) ==
    IF t = <<>> THEN FALSE
    ELSE IF s = <<>> THEN TRUE
    ELSE IF Head(s) = Head(t) THEN StrLess(Tail(s), Tail(t))
    ELSE Ord(Head(s)) < Ord(Head(t))

\* sorted(ls) for a listing without repetitions
RECURSIVE sorted(_)
sorted(S) ==
    IF S = {} THEN <<>>
    ELSE LET m == CHOOSE x \in S : \A y \in S \ {x} : StrLess(x, y)
         IN  <<m>> \o sorted(S \ {m})

\* An optional argument: <<>> is None, <<v>> is the value v
None == <<>>
Some(v) == <<v>>

----------------------------------------------------------------------------
(* Paths and the file system *)

\* os.path.join(a, b)
join(a, b) ==
    IF b # <<>> /\ Head(b) = "/" THEN b
    ELSE IF a = <<>> \/ a[Len(a)] = "/" THEN a \o b
    ELSE a \o <<"/">> \o b

\* A path with its trailing separators dropped: "/r/" names the directory "/r"
RECURSIVE normpath(_)
normpath(p) ==
    IF Len(p) > 1 /\ p[Len(p)] = "/" THEN normpath(SubSeq(p, 1, Len(p) - 1)) ELSE p

\* The path itself and every directory above it, "/" excepted
Prefixes(p) ==
    { SubSeq(p, 1, i - 1) : i \in { j \in 2..Len(p) : p[j] = "/" } } \cup {p}

\* p is q or lies below q
Under(p, q) == p = q \/ startswith(p, q \o <<"/">>)

\* exists as os.path.isfile would answer: a directory does not count
exists_isfile(d, f, p) == p \in DOMAIN f

\* os.path.isdir(p) and os.path.exists(p) in the file system (d, f)
isdir(d, p) == normpath(p) \in d
exists(d, f, p) == isdir(d, p) \/ p \in DOMAIN f

\* os.makedirs(p) / the directories venv creates: p and every missing parent
makedirs(d, p) == d \cup Prefixes(p)

\* The file map f with content c written to p, and with everything under q removed
Put(f, p, c) == [x \in DOMAIN f \cup {p} |-> IF x = p THEN c ELSE f[x]]
Without(f, q) == [x \in { y \in DOMAIN f : ~Under(y, q) } |-> f[x]]

\* os.listdir(p): the names of the directories and files directly in p
listdir(d, f, p) ==
    LET below == { e \in d \cup DOMAIN f : e # p /\ Under(e, p) }
        rel(e) == SubSeq(e, Len(p) + 2, Len(e))
    IN  { rel(e) : e \in { x \in below : ~HasChar("/", rel(x)) } }

\* The string s as written so far plus the string t appended (mode 'a')
AppendTo(f, p, t) == Put(f, p, (IF p \in DOMAIN f THEN f[p] ELSE <<>>) \o t)

----------------------------------------------------------------------------
(* Configuration: the registry root and the fixed file names *)

\* ctx.obj['path']: the registry root the group callback was given
path == <<"/", "r">>

s_aliases == <<"a", "l", "i", "a", "s", "e", "s">>
s_quickenv_description ==
    <<".", "q", "u", "i", "c", "k", "e", "n", "v", "_",
      "d", "e", "s", "c", "r", "i", "p", "t", "i", "o", "n">>
s_quickenv_alias ==
    <<".", "q", "u", "i", "c", "k", "e", "n", "v", "_", "a", "l", "i", "a", "s">>
s_no_description ==
    <<"N", "o", " ", "d", "e", "s", "c", "r", "i", "p", "t", "i", "o", "n", " ",
      "p", "r", "o", "v", "i", "d", "e", "d">>
s_source_line ==
    <<"s", "o", "u", "r", "c", "e", " ", "~", "/", ".", "q", "u", "i", "c", "k",
      "e", "n", "v", "s", "/", "a", "l", "i", "a", "s", "e", "s">>
s_bin_activate == <<"/", "b", "i", "n", "/", "a", "c", "t", "i", "v", "a", "t", "e">>

\* What the program says as it ends an invocation early
s_exists == "A virtual environment with this name already exists."
s_missing == "A virtual environment with this name does not exist."
s_in_use == "Alias is already in use."
s_empty == "No virtual environments found."

alias_file == join(path, s_aliases)
description_record(venv_path) == join(venv_path, s_quickenv_description)
alias_record(venv_path) == join(venv_path, s_quickenv_alias)

\* alias_prefix with the equals sign that ends the token left out
alias_prefix_no_eq(alias) == <<"a", "l", "i", "a", "s", " ">> \o alias

\* alias_prefix with the blank after the word alias left out
alias_prefix_no_blank(alias) == <<"a", "l", "i", "a", "s">> \o alias \o <<"=">>

\* 'alias {}='.format(alias): what create looks for at the start of a line
alias_prefix(alias) == <<"a", "l", "i", "a", "s", " ">> \o alias \o <<"=">>

\* f'alias {alias}=". {venv_path}/bin/activate"': what delete looks for
alias_command(alias, venv_path) ==
    <<"a", "l", "i", "a", "s", " ">> \o alias \o <<"=", "\"", ".", " ">>
        \o venv_path \o s_bin_activate \o <<"\"">>

\* The line create appends to the alias table
alias_line(alias, venv_path) == alias_command(alias, venv_path) \o <<"\n">>

\* The group callback: the registry root is created when it is missing
cli(d) == IF path \in d THEN d ELSE makedirs(d, path)

----------------------------------------------------------------------------
(* The inputs of the model *)

n_a == <<"a">>
n_ab == <<"a", "b">>
n_a_b == <<"a", "/", "b">>
n_spaced == <<"a", " ", "b">>

\* The NAME arguments tried: two names of which one is a prefix of the other,
\* a name with a path separator, the name of the alias table, a name with a
\* space and the empty name
Names == { n_a, n_ab, n_a_b, s_aliases, n_spaced, <<>> }

\* The --alias options tried: none (the name is the alias), and a token that is
\* also a name and has another name as a prefix
Aliases == { None, Some(n_ab) }

\* The --description options tried: none, and a text with blanks around it
Descriptions == { None, Some(<<" ", "d", " ">>) }

\* The --python options tried: none, a binary that is found, one that is not
py_found == <<"p", "y">>
py_missing == <<"n", "o">>
Pythons == { None, Some(py_found), Some(py_missing) }

\* The registry holds at most this many directories in the runs explored
MaxDirs == 2

\* distutils.spawn.find_executable: the path of the binary, or None
find_executable(python) ==
    IF python = py_found THEN Some(<<"/">> \o python) ELSE None

\* How the external steps of one create end: both succeed; the creation
\* mechanism fails before or after it made the directory; the upgrade fails
Mechanisms == { "ok", "venv_failed_no_dir", "venv_failed_dir", "pip_failed" }

\* The --python option and the way the external steps end, together: every
\* option and every ending occur
Runs ==
    { <<None, "ok">>, <<None, "venv_failed_dir">>, <<Some(py_found), "pip_failed">>,
      <<Some(py_found), "venv_failed_no_dir">>, <<Some(py_missing), "ok">> }

\* ~/.bash_aliases before the first invocation: absent or empty, a line of
\* the user's with or without its newline, the source line already there
InitialBashAliases ==
    { <<>>, <<"x", "\n">>, <<"x">>, s_source_line \o <<"\n">> }

----------------------------------------------------------------------------
(* create *)

\* What an invocation leaves: the file system, ~/.bash_aliases, the exit status
\* and the message that says why (an echo of the program, or the exception
\* that ended it)
Outcome(d, f, b, code, msg, out) ==
    [dirs |-> d, files |-> f, bash_aliases |-> b, code |-> code, msg |-> msg, out |-> out]

\* Lines 107-112: the source line is appended to ~/.bash_aliases unless one of
\* the file's lines, newlines stripped, is that line
bootstrap(b) ==
    LET ls == readlines(b)
        lines == { stripNL(ls[i]) : i \in 1..Len(ls) }
    IN  IF s_source_line \notin lines THEN b \o s_source_line \o <<"\n">> ELSE b

\* alias_in_use comparing whole lines instead of their starts
alias_in_use_whole_line(f, alias) ==
    LET ls == readlines(f[alias_file])
    IN  \E i \in 1..Len(ls) : ls[i] = alias_prefix(alias)

\* Lines 78-83: some line of the alias table starts with 'alias <alias>='
alias_in_use(f, alias) ==
    LET ls == readlines(f[alias_file])
    IN  \E i \in 1..Len(ls) : startswith(ls[i], alias_prefix(alias))

\* create_records writing the description record only when one was given
create_records_given_only(d, f, b, venv_path, description, alias) ==
    LET f1 == IF description = None THEN f
              ELSE Put(f, description_record(venv_path), description[1] \o <<"\n">>)
    IN  IF isdir(d, alias_file)
        THEN Outcome(d, f1, b, 1, "IsADirectoryError", <<>>)
        ELSE LET f2 == AppendTo(f1, alias_file, alias_line(alias, venv_path))
                 f3 == Put(f2, alias_record(venv_path), alias \o <<"\n">>)
             IN  Outcome(d, f3, bootstrap(b), 0, "Done.", <<>>)

\* Lines 97-117: the records, the alias line and the bootstrap line are written
create_records(d, f, b, venv_path, description, alias) ==
    LET text == IF description = None THEN s_no_description ELSE description[1]
        f1 == Put(f, description_record(venv_path), text \o <<"\n">>)
    IN  IF isdir(d, alias_file)
        THEN Outcome(d, f1, b, 1, "IsADirectoryError", <<>>)
        ELSE LET f2 == AppendTo(f1, alias_file, alias_line(alias, venv_path))
                 f3 == Put(f2, alias_record(venv_path), alias \o <<"\n">>)
             IN  Outcome(d, f3, bootstrap(b), 0, "Done.", <<>>)

\* create_venv writing the description record before pip is upgraded
create_venv_record_first(d, f, b, venv_path, description, alias, python, mech) ==
    IF python # None /\ find_executable(python[1]) = None
    THEN Outcome(d, f, b, 126, "No python binary could be found", <<>>)
    ELSE IF (Prefixes(venv_path) \cap DOMAIN f) # {}
    THEN Outcome(d, f, b, 1, "NotADirectoryError", <<>>)
    ELSE IF mech = "venv_failed_no_dir"
    THEN Outcome(d, f, b, 1, "CalledProcessError", <<>>)
    ELSE IF mech = "venv_failed_dir"
    THEN Outcome(makedirs(d, venv_path), f, b, 1, "CalledProcessError", <<>>)
    ELSE IF mech = "pip_failed"
    THEN Outcome(makedirs(d, venv_path),
                 Put(f, description_record(venv_path), s_no_description \o <<"\n">>),
                 b, 1, "CalledProcessError", <<>>)
    ELSE create_records(makedirs(d, venv_path), f, b, venv_path, description, alias)

\* create_venv making the entry directory before the interpreter is looked up
create_venv_dir_first(d, f, b, venv_path, description, alias, python, mech) ==
    IF python # None /\ find_executable(python[1]) = None
    THEN Outcome(makedirs(d, venv_path), f, b, 126, "No python binary could be found", <<>>)
    ELSE IF (Prefixes(venv_path) \cap DOMAIN f) # {}
    THEN Outcome(d, f, b, 1, "NotADirectoryError", <<>>)
    ELSE IF mech = "venv_failed_no_dir"
    THEN Outcome(d, f, b, 1, "CalledProcessError", <<>>)
    ELSE IF mech \in {"venv_failed_dir", "pip_failed"}
    THEN Outcome(makedirs(d, venv_path), f, b, 1, "CalledProcessError", <<>>)
    ELSE create_records(makedirs(d, venv_path), f, b, venv_path, description, alias)

\* Lines 85-95: the interpreter is looked up, the environment is created and
\* its pip and setuptools are upgraded
create_venv(d, f, b, venv_path, description, alias, python, mech) ==
    IF python # None /\ find_executable(python[1]) = None
    THEN Outcome(d, f, b, 126, "No python binary could be found", <<>>)
    ELSE IF (Prefixes(venv_path) \cap DOMAIN f) # {}
    THEN Outcome(d, f, b, 1, "NotADirectoryError", <<>>)
    ELSE IF mech = "venv_failed_no_dir"
    THEN Outcome(d, f, b, 1, "CalledProcessError", <<>>)
    ELSE IF mech \in {"venv_failed_dir", "pip_failed"}
    THEN Outcome(makedirs(d, venv_path), f, b, 1, "CalledProcessError", <<>>)
    ELSE create_records(makedirs(d, venv_path), f, b, venv_path, description, alias)

\* Lines 58-117, after the group callback
create_body(d, f, b, name, description, alias_option, python, mech) ==
    LET alias == IF alias_option # None THEN alias_option[1] ELSE name
        venv_path == join(path, name)
    IN  IF HasChar(" ", name)
        THEN Outcome(d, f, b, 1, "Error: Virtual environment names cannot contain spaces.", <<>>)
        ELSE IF ~isalnum(alias)
        THEN Outcome(d, f, b, 1, "Error: Aliases cannot contain spaces.", <<>>)
        ELSE IF exists(d, f, venv_path)
        THEN Outcome(d, f, b, 126, s_exists, <<>>)
        ELSE IF exists(d, f, alias_file) /\ isdir(d, alias_file)
        THEN Outcome(d, f, b, 1, "IsADirectoryError", <<>>)
        ELSE IF exists(d, f, alias_file) /\ alias_in_use(f, alias)
        THEN Outcome(d, f, b, 126, s_in_use, <<>>)
        ELSE create_venv(d, f, b, venv_path, description, alias, python, mech)

\* What is kept of an invocation: the subcommand, the arguments the claims
\* speak of, the exit status, the message and the lines list echoed
Invocation(op, name, description, alias, o) ==
    [op |-> op, name |-> name, description |-> description, alias |-> alias,
     code |-> o.code, msg |-> o.msg, out |-> o.out]

create(name, description, alias, python, mech) ==
    \E o \in { create_body(cli(dirs), files, bash_aliases,
                            name, description, alias, python, mech) } :
        /\ Cardinality(o.dirs \ {path}) <= MaxDirs
        /\ dirs' = o.dirs
        /\ files' = o.files
        /\ bash_aliases' = o.bash_aliases
        /\ last' = Invocation("create", name, description, alias, o)
        /\ UNCHANGED pc

----------------------------------------------------------------------------
(* delete *)

RECURSIVE SelectLines(_, _)
\* [l for l in lines if not l.startswith(pattern)]
SelectLines(lines, pattern) ==
    IF lines = <<>> THEN <<>>
    ELSE (IF startswith(Head(lines), pattern) THEN <<>> ELSE <<Head(lines)>>)
             \o SelectLines(Tail(lines), pattern)

\* shutil.rmtree(p): p and everything below it is removed
rmtree_dirs(d, p) == { x \in d : ~Under(x, normpath(p)) }
rmtree_files(f, p) == Without(f, normpath(p))

\* delete_body removing a directory that has no alias record instead of failing
delete_body_tolerant(d, f, b, name) ==
    LET venv_path == join(path, name)
    IN  IF ~exists(d, f, venv_path)
        THEN Outcome(d, f, b, 126, s_missing, <<>>)
        ELSE IF ~isdir(d, venv_path)
        THEN Outcome(d, f, b, 1, "NotADirectoryError", <<>>)
        ELSE IF alias_record(venv_path) \notin DOMAIN f
        THEN Outcome(rmtree_dirs(d, venv_path), rmtree_files(f, venv_path),
                     b, 0, "Deleted", <<>>)
        ELSE IF isdir(d, alias_file)
        THEN Outcome(d, f, b, 1, "IsADirectoryError", <<>>)
        ELSE IF alias_file \notin DOMAIN f
        THEN Outcome(d, f, b, 1, "FileNotFoundError", <<>>)
        ELSE LET alias == strip(f[alias_record(venv_path)])
                 lines == SelectLines(readlines(f[alias_file]),
                                      alias_command(alias, venv_path))
                 f1 == Put(f, alias_file, writelines(lines))
             IN  Outcome(rmtree_dirs(d, venv_path), rmtree_files(f1, venv_path),
                         b, 0, "Deleted", <<>>)

\* Lines 123-144, after the group callback
delete_body(d, f, b, name) ==
    LET venv_path == join(path, name)
    IN  IF ~exists(d, f, venv_path)
        THEN Outcome(d, f, b, 126, s_missing, <<>>)
        ELSE IF ~isdir(d, venv_path)
        THEN Outcome(d, f, b, 1, "NotADirectoryError", <<>>)
        ELSE IF alias_record(venv_path) \notin DOMAIN f
        THEN Outcome(d, f, b, 1, "FileNotFoundError", <<>>)
        ELSE IF isdir(d, alias_file)
        THEN Outcome(d, f, b, 1, "IsADirectoryError", <<>>)
        ELSE IF alias_file \notin DOMAIN f
        THEN Outcome(d, f, b, 1, "FileNotFoundError", <<>>)
        ELSE LET alias == strip(f[alias_record(venv_path)])
                 lines == SelectLines(readlines(f[alias_file]),
                                      alias_command(alias, venv_path))
                 f1 == Put(f, alias_file, writelines(lines))
             IN  Outcome(rmtree_dirs(d, venv_path), rmtree_files(f1, venv_path),
                         b, 0, "Deleted", <<>>)

delete(name) ==
    \E o \in { delete_body(cli(dirs), files, bash_aliases, name) } :
        /\ dirs' = o.dirs
        /\ files' = o.files
        /\ bash_aliases' = o.bash_aliases
        /\ last' = Invocation("delete", name, None, None, o)
        /\ UNCHANGED pc

----------------------------------------------------------------------------
(* list *)

s_no_venvs ==
    <<"N", "o", " ", "v", "i", "r", "t", "u", "a", "l", " ", "e", "n", "v", "i",
      "r", "o", "n", "m", "e", "n", "t", "s", " ", "f", "o", "u", "n", "d", ".">>

\* f"{name} (alias: {alias})" and f"  {description}": the two lines of an entry
entry_line(name, alias) ==
    name \o <<" ", "(", "a", "l", "i", "a", "s", ":", " ">> \o alias \o <<")">>
description_line(description) == <<" ", " ">> \o description

RECURSIVE list_loop(_, _, _, _, _)
\* Lines 158-166: the loop over the sorted listing, out being what was echoed
list_loop(d, f, b, names, out) ==
    IF names = <<>> THEN Outcome(d, f, b, 0, "", out)
    ELSE LET venv_path == join(path, Head(names))
         IN  IF ~isdir(d, venv_path)
             THEN list_loop(d, f, b, Tail(names), out)
             ELSE IF description_record(venv_path) \notin DOMAIN f
                      \/ alias_record(venv_path) \notin DOMAIN f
             THEN Outcome(d, f, b, 1, "FileNotFoundError", out)
             ELSE list_loop(d, f, b, Tail(names),
                      out \o << entry_line(Head(names), strip(f[alias_record(venv_path)])),
                                description_line(strip(f[description_record(venv_path)])) >>)

\* list_body ending an empty listing with exit status 0
list_body_empty_ok(d, f, b) ==
    LET ls == listdir(d, f, path)
    IN  IF ls = {}
        THEN Outcome(d, f, b, 0, s_empty, <<s_no_venvs>>)
        ELSE list_loop(d, f, b, sorted(ls), <<>>)

\* Lines 149-166, after the group callback
list_body(d, f, b) ==
    LET ls == listdir(d, f, path)
    IN  IF ls = {}
        THEN Outcome(d, f, b, 126, s_empty, <<s_no_venvs>>)
        ELSE list_loop(d, f, b, sorted(ls), <<>>)

list ==
    \E o \in { list_body(cli(dirs), files, bash_aliases) } :
        /\ dirs' = o.dirs
        /\ files' = o.files
        /\ bash_aliases' = o.bash_aliases
        /\ last' = Invocation("list", <<>>, None, None, o)
        /\ UNCHANGED pc

----------------------------------------------------------------------------
(* The system: any sequence of invocations, one after the other *)

NoInvocation ==
    [op |-> "none", name |-> <<>>, description |-> None, alias |-> None,
     code |-> 0, msg |-> "", out |-> <<>>]

\* No invocation is under way
Idle == [step |-> "idle", name |-> <<>>, description |-> None, alias |-> <<>>,
         lines |-> <<>>]

Init ==
    /\ dirs = {}
    /\ files = [x \in {} |-> <<>>]
    /\ bash_aliases \in InitialBashAliases
    /\ last = NoInvocation
    /\ pc = Idle

Next ==
    \/ \E name \in Names, description \in Descriptions, alias \in Aliases, run \in Runs :
            create(name, description, alias, run[1], run[2])
    \/ \E name \in Names : delete(name)
    \/ list

Spec == Init /\ [][Next]_vars

----------------------------------------------------------------------------
(* What the claims speak of *)

\* The immediate subdirectories of the registry root
RootSubdirs(d, f) == { join(path, n) : n \in listdir(d, f, path) } \cap d

\* The entries: the directories at or below the root's subdirectories that
\* hold an alias record (create writes it as its last record)
Registered(d, f) == { p \in d : alias_record(p) \in DOMAIN f }

\* The alias an entry's record holds, as delete and list read it back
alias_of(f, p) == strip(f[alias_record(p)])

\* The lines of the alias table
AliasTable(f) == IF alias_file \in DOMAIN f THEN readlines(f[alias_file]) ELSE <<>>

\* The alias token of a line 'alias TOKEN=...'
alias_token(line) ==
    LET eq == CHOOSE i \in 1..Len(line) :
                  line[i] = "=" /\ \A j \in 1..(i - 1) : line[j] # "="
    IN  SubSeq(line, 7, eq - 1)

\* The alias a create with these arguments resolves
resolved_alias(name, alias_option) ==
    IF alias_option # None THEN alias_option[1] ELSE name

\* Arguments that pass create's validation
ValidArgs(name, alias_option) ==
    ~HasChar(" ", name) /\ isalnum(resolved_alias(name, alias_option))

----------------------------------------------------------------------------
\* C1: in every state reached by a sequence of create and delete invocations
\* from an empty root, no two lines of the alias table carry the same alias token.
C1_AliasTokensUnique ==
    LET t == AliasTable(files)
    IN  \A i, j \in 1..Len(t) : i # j => alias_token(t[i]) # alias_token(t[j])

\* Two entries are in the table, after a create that followed another
C1_Witness ==
    /\ Len(AliasTable(files)) >= 2
    /\ last.op = "create" /\ last.code = 0

\* C2: a delete of a registered entry removes its directory and exactly the one
\* line of the alias table that maps its alias to its activation command; every
\* other entry's directory, description record and alias record, and every
\* other line of the table, in the order they had, are unchanged.
C2_DeleteFrame ==
    [][ (last'.op = "delete" /\ last'.code = 0) =>
          LET venv_path == join(path, last'.name)
              t == AliasTable(files)
              u == AliasTable(files')
              mine == alias_line(alias_of(files, venv_path), venv_path)
          IN  /\ venv_path \notin dirs'
              /\ \E i \in 1..Len(t) :
                    /\ t[i] = mine
                    /\ u = SubSeq(t, 1, i - 1) \o SubSeq(t, i + 1, Len(t))
              /\ \A p \in Registered(dirs, files) \ {venv_path} :
                    /\ p \in dirs'
                    /\ description_record(p) \in DOMAIN files'
                    /\ alias_record(p) \in DOMAIN files'
                    /\ files'[description_record(p)] = files[description_record(p)]
                    /\ files'[alias_record(p)] = files[alias_record(p)]
      ]_vars

\* C3 as claimed: after every invocation, every subdirectory of the registry
\* root has both a description record and an alias record.
C3_EverySubdirHasRecords ==
    \A p \in RootSubdirs(dirs, files) :
        description_record(p) \in DOMAIN files /\ alias_record(p) \in DOMAIN files

\* C3, amended: after every invocation, every directory under the root that has
\* an alias record has a description record too, and the directory of a create
\* that ended with exit status 0 has both records; a create that ended otherwise
\* may have left its directory without them.
C3_RegisteredHaveRecords ==
    /\ \A p \in Registered(dirs, files) : description_record(p) \in DOMAIN files
    /\ (last.op = "create" /\ last.code = 0) =>
          LET venv_path == join(path, last.name)
          IN  /\ venv_path \in dirs
              /\ description_record(venv_path) \in DOMAIN files
              /\ alias_record(venv_path) \in DOMAIN files

\* A create has succeeded beside a directory that a failed create left
C3_Witness ==
    /\ last.op = "create" /\ last.code = 0
    /\ \E p \in RootSubdirs(dirs, files) :
          /\ p # join(path, last.name)
          /\ description_record(p) \notin DOMAIN files
          /\ alias_record(p) \notin DOMAIN files

\* C4: after every invocation, the alias table has a line for an alias token if
\* and only if some entry directory has an alias record equal to it, and the
\* line's activation command references that entry's path.
C4_TableAgreesWithEntries ==
    LET t == AliasTable(files)
        entries == Registered(dirs, files)
    IN  /\ \A i \in 1..Len(t) :
              \E p \in entries : t[i] = alias_line(alias_of(files, p), p)
        /\ \A p \in entries :
              \E i \in 1..Len(t) : t[i] = alias_line(alias_of(files, p), p)

\* C5: a create with valid arguments for a name whose directory exists ends
\* with exit status 126, and the directories, the records, the alias table and
\* ~/.bash_aliases are what they were.
C5_CreateExistingName ==
    [][ ( /\ last'.op = "create"
          /\ ValidArgs(last'.name, last'.alias)
          /\ isdir(dirs, join(path, last'.name)) ) =>
          /\ last'.code = 126
          /\ last'.msg = s_exists
          /\ dirs' = dirs
          /\ files' = files
          /\ bash_aliases' = bash_aliases
      ]_vars

\* A create was refused for the name of a registered entry
C5_Witness ==
    /\ last.op = "create" /\ last.code = 126 /\ last.msg = s_exists
    /\ join(path, last.name) \in Registered(dirs, files)

\* C6: a create with valid arguments whose resolved alias is the alias of
\* another entry ends with exit status 126; no directory is created and the
\* alias table gets no line.
C6_CreateAliasInUse ==
    [][ ( /\ last'.op = "create"
          /\ ValidArgs(last'.name, last'.alias)
          /\ \E p \in Registered(dirs, files) :
                /\ p # join(path, last'.name)
                /\ alias_of(files, p) = resolved_alias(last'.name, last'.alias) ) =>
          /\ last'.code = 126
          /\ dirs' = dirs
          /\ files' = files
      ]_vars

\* A create for a new name was refused because another entry has its alias
C6_Witness ==
    /\ last.op = "create" /\ last.code = 126 /\ last.msg = s_in_use
    /\ join(path, last.name) \notin dirs
    /\ \E p \in Registered(dirs, files) :
          alias_of(files, p) = resolved_alias(last.name, last.alias)

\* C7: whenever the registry root has no entry subdirectories, list reports the
\* empty-registry status (the alias table in the root is not an entry).
C7_EmptyRegistryReported ==
    (last.op = "list" /\ RootSubdirs(dirs, files) = {}) =>
        (last.msg = s_empty /\ last.out = <<s_no_venvs>>)

\* C8: when a subdirectory of the root lacks its description or alias record,
\* list fails and has emitted no entry at all.
C8_ListAllOrNothing ==
    ( /\ last.op = "list"
      /\ \E p \in RootSubdirs(dirs, files) :
            description_record(p) \notin DOMAIN files
                \/ alias_record(p) \notin DOMAIN files ) =>
        (last.code # 0 /\ last.out = <<>>)

\* The lines of ~/.bash_aliases that are the source line
SourceLines(b) ==
    LET ls == readlines(b)
    IN  { i \in 1..Len(ls) : stripNL(ls[i]) = s_source_line }

\* C9: after any number of create invocations, ~/.bash_aliases holds the source
\* line at most once, and no other line of the file is altered.
C9_BootstrapOnceOthersKept ==
    [][ last'.op = "create" =>
          LET old == readlines(bash_aliases)
              new == readlines(bash_aliases')
          IN  /\ Cardinality(SourceLines(bash_aliases')) <= 1
              /\ \A i \in 1..Len(old) :
                    stripNL(old[i]) # s_source_line =>
                        (i <= Len(new) /\ stripNL(new[i]) = stripNL(old[i]))
      ]_vars

\* The name an emitted entry line starts with (names hold no blank)
entry_name(line) ==
    LET sp == CHOOSE i \in 1..Len(line) :
                  line[i] = " " /\ \A j \in 1..(i - 1) : line[j] # " "
    IN  SubSeq(line, 1, sp - 1)

\* C10: a create with a name without whitespace and an alphanumeric alias not in
\* use that succeeded, followed by list, emits exactly one entry with that
\* name, shown with that alias and with the description given, or the
\* placeholder; the entries are emitted in the order of their names.  (Read in
\* the claim's favour: no directory of the root lacks its records when list
\* runs, and the description is compared as list shows it, trimmed.)
C10_CreateThenList ==
    [][ ( /\ last.op = "create" /\ last.code = 0
          /\ C3_EverySubdirHasRecords
          /\ last'.op = "list" ) =>
          LET out == last'.out
              alias == resolved_alias(last.name, last.alias)
              text == IF last.description = None
                      THEN s_no_description ELSE strip(last.description[1])
              mine == { i \in 1..Len(out) :
                          i % 2 = 1 /\ entry_name(out[i]) = last.name }
          IN  /\ Cardinality(mine) = 1
              /\ \A i \in mine :
                    /\ out[i] = entry_line(last.name, alias)
                    /\ out[i + 1] = description_line(text)
              /\ \A i, j \in 1..Len(out) :
                    (i % 2 = 1 /\ j % 2 = 1 /\ i < j) =>
                        StrLess(entry_name(out[i]), entry_name(out[j]))
      ]_vars

\* C11: a create whose name is empty or holds a whitespace character, or whose
\* resolved alias is not alphanumeric, ends with exit status 1; it creates no
\* directory, writes no line to the alias table and leaves ~/.bash_aliases alone.
C11_CreateValidation ==
    [][ ( /\ last'.op = "create"
          /\ \/ last'.name = <<>>
             \/ \E c \in WhitespaceChars : HasChar(c, last'.name)
             \/ ~isalnum(resolved_alias(last'.name, last'.alias)) ) =>
          /\ last'.code = 1
          /\ dirs' = cli(dirs)
          /\ files' = files
          /\ bash_aliases' = bash_aliases
      ]_vars

\* C12: a delete for a name that has no entry directory ends with exit status
\* 126 and leaves the alias table and every entry as they were.
C12_DeleteMissingName ==
    [][ ( /\ last'.op = "delete"
          /\ ~isdir(cli(dirs), join(path, last'.name)) ) =>
          /\ last'.code = 126
          /\ last'.msg = s_missing
          /\ dirs' = cli(dirs)
          /\ files' = files
      ]_vars

\* The exit status of a create or a delete step, as C13 has it: 0 exactly when
\* the entry was registered or removed, 1 when create's validation rejects the
\* arguments, 126 when the name exists already, the alias is in use or the
\* name to delete does not exist
CreateDeleteStatus ==
    LET venv_path == join(path, last'.name)
        alias == resolved_alias(last'.name, last'.alias)
        d0 == cli(dirs)
        t == AliasTable(files)
    IN  /\ last'.code \in {0, 1, 126}
        /\ last'.op = "create" =>
              /\ last'.code = 0 <=>
                    ( /\ alias_record(venv_path) \notin DOMAIN files
                      /\ alias_record(venv_path) \in DOMAIN files' )
              /\ ~ValidArgs(last'.name, last'.alias) => last'.code = 1
              /\ (ValidArgs(last'.name, last'.alias) /\ exists(d0, files, venv_path))
                    => last'.code = 126
              /\ ( /\ ValidArgs(last'.name, last'.alias)
                   /\ ~exists(d0, files, venv_path)
                   /\ \E i \in 1..Len(t) : alias_token(t[i]) = alias )
                    => last'.code = 126
        /\ last'.op = "delete" =>
              /\ last'.code = 0 <=>
                    (normpath(venv_path) \in d0 /\ normpath(venv_path) \notin dirs')
              /\ ~exists(d0, files, venv_path) => last'.code = 126

home == <<"/", "h">>
expanduser(p) ==
    IF Len(p) >= 1 /\ p[1] = "~" THEN home \o SubSeq(p, 2, Len(p)) ELSE p

\* The root used when neither --path nor QUICKENV_DIRECTORY names one
default_path == join(home, <<".", "q", "u", "i", "c", "k", "e", "n", "v", "s">>)

\* The files that the source lines of ~/.bash_aliases name
s_source == <<"s", "o", "u", "r", "c", "e", " ">>
SourcedFiles(b) ==
    LET ls == readlines(b)
    IN  { expanduser(SubSeq(stripNL(ls[i]), Len(s_source) + 1, Len(stripNL(ls[i])))) :
            i \in { j \in 1..Len(ls) : startswith(stripNL(ls[j]), s_source) } }

\* C14: after a create that succeeds, ~/.bash_aliases holds a source line that
\* names the alias table of the root the invocation ran with.
C14_HookSourcesRootInUse ==
    [][ (last'.op = "create" /\ last'.code = 0) =>
            alias_file \in SourcedFiles(bash_aliases') ]_vars

\* s is a strict prefix of t
StrictPrefix(s, t) == Len(s) < Len(t) /\ SubSeq(t, 1, Len(s)) = s

\* C16: a create that passes validation for a name not taken is refused as
\* alias-in-use if and only if a line of the alias table has an alias token equal
\* to the resolved alias; a token that is a strict prefix or a strict extension
\* of the alias is no conflict.
C16_ExactTokenMatch ==
    [][ ( /\ last'.op = "create"
          /\ ValidArgs(last'.name, last'.alias)
          /\ ~exists(cli(dirs), files, join(path, last'.name))
          /\ ~isdir(cli(dirs), alias_file) ) =>
          LET t == AliasTable(files)
              alias == resolved_alias(last'.name, last'.alias)
          IN  (last'.code = 126 /\ last'.msg = s_in_use)
                  <=> \E i \in 1..Len(t) : alias_token(t[i]) = alias
      ]_vars

\* A create succeeded for an alias of which a token of the table is a strict
\* extension
C16_Witness ==
    /\ last.op = "create" /\ last.code = 0
    /\ \E i \in 1..Len(AliasTable(files)) :
          StrictPrefix(resolved_alias(last.name, last.alias),
                       alias_token(AliasTable(files)[i]))

\* What create says when the interpreter is not found
s_no_python == "No python binary could be found"

\* A create with these arguments gets as far as the interpreter lookup
ReachesLookup(d, f, name, alias_option) ==
    /\ ValidArgs(name, alias_option)
    /\ ~exists(d, f, join(path, name))
    /\ ~isdir(d, alias_file)
    /\ \A i \in 1..Len(AliasTable(f)) :
          alias_token(AliasTable(f)[i]) # resolved_alias(name, alias_option)

\* C17: a create that names an interpreter which cannot be found ends with exit
\* status 126 and has created no directory, written no file and left
\* ~/.bash_aliases alone: in every reachable state, for every name and alias that
\* get as far as the lookup, and in every step that reported the failure.
C17_InterpreterNotFound ==
    /\ [][ (last'.op = "create" /\ last'.msg = s_no_python) =>
              /\ last'.code = 126
              /\ ReachesLookup(cli(dirs), files, last'.name, last'.alias)
              /\ dirs' = cli(dirs)
              /\ files' = files
              /\ bash_aliases' = bash_aliases
         ]_vars
    /\ [](\A name \in Names, alias \in Aliases :
            ReachesLookup(cli(dirs), files, name, alias) =>
               \E o \in { create_body(cli(dirs), files, bash_aliases,
                                      name, None, alias, Some(py_missing), "ok") } :
                  /\ o.code = 126 /\ o.msg = s_no_python
                  /\ o.dirs = cli(dirs)
                  /\ o.files = files
                  /\ o.bash_aliases = bash_aliases)

\* A create was refused for its interpreter while the registry held an entry
C17_Witness ==
    /\ last.op = "create" /\ last.code = 126 /\ last.msg = s_no_python
    /\ Registered(dirs, files) # {}
    /\ join(path, last.name) \notin dirs

\* What ends a create whose venv or pip subprocess fails
s_subprocess_failed == "CalledProcessError"

\* C18: a create that fails in the creation of the environment or in the upgrade
\* of pip leaves the alias table, every record and ~/.bash_aliases as they were;
\* all it may leave behind is the entry directory, made along its path.
C18_FailedCreateFrame ==
    [][ (last'.op = "create" /\ last'.msg = s_subprocess_failed) =>
          LET venv_path == join(path, last'.name)
          IN  /\ last'.code = 1
              /\ files' = files
              /\ bash_aliases' = bash_aliases
              /\ description_record(venv_path) \notin DOMAIN files'
              /\ alias_record(venv_path) \notin DOMAIN files'
              /\ cli(dirs) \subseteq dirs'
              /\ dirs' \ cli(dirs) \subseteq Prefixes(venv_path)
      ]_vars

\* A create failed in its subprocess and left its directory behind, without
\* records, next to a table that has a line
C18_Witness ==
    /\ last.op = "create" /\ last.msg = s_subprocess_failed
    /\ join(path, last.name) \in dirs
    /\ alias_record(join(path, last.name)) \notin DOMAIN files
    /\ AliasTable(files) # <<>>

\* The directory of this name is an orphan: it exists and no record, of its own
\* or of an entry below it, lies in it
Orphan(d, f, name) ==
    /\ name # <<>>
    /\ isdir(d, join(path, name))
    /\ \A x \in DOMAIN f : ~Under(x, join(path, name))

\* C19 as claimed: a delete for the name of an orphaned directory succeeds and
\* removes the directory.
C19_OrphanDeletable ==
    [][ (last'.op = "delete" /\ Orphan(cli(dirs), files, last'.name)) =>
            /\ last'.code = 0
            /\ normpath(join(path, last'.name)) \notin dirs'
      ]_vars

\* C19, amended: a delete for the name of an orphaned directory ends with exit
\* status 1 and changes nothing; a create for that name is still refused with
\* 126, and a list of a root that holds the orphan ends with exit status 1.
C19_OrphanStays ==
    [][ /\ (last'.op = "delete" /\ Orphan(cli(dirs), files, last'.name)) =>
              /\ last'.code = 1
              /\ dirs' = cli(dirs)
              /\ files' = files
              /\ bash_aliases' = bash_aliases
        /\ ( /\ last'.op = "create"
             /\ ValidArgs(last'.name, last'.alias)
             /\ Orphan(cli(dirs), files, last'.name) ) =>
              /\ last'.code = 126
              /\ dirs' = cli(dirs)
              /\ files' = files
        /\ ( /\ last'.op = "list"
             /\ \E n \in listdir(cli(dirs), files, path) :
                   Orphan(cli(dirs), files, n) ) =>
              last'.code = 1
      ]_vars

\* A delete for the directory that a failed create left behind has failed
C19_Witness ==
    /\ last.op = "delete" /\ last.code = 1 /\ last.msg = "FileNotFoundError"
    /\ Orphan(dirs, files, last.name)

\* C20: in every state reached, <root>/aliases is absent or the alias table
\* file, never a directory.
C20_AliasFileNeverEntry ==
    ~isdir(dirs, alias_file)

-----------------------------------------------------------------------------
(* create and delete, one file-system step at a time.  The reads of an        *)
(* invocation change nothing and are taken together with the step that       *)
(* follows them; every write, every directory made or removed and every      *)
(* file unlinked is a step of its own, so that each state is one that        *)
(* another process could see.                                                *)

\* The invocation under way is at this step
At(step, name, description, alias, lines) ==
    [step |-> step, name |-> name, description |-> description, alias |-> alias,
     lines |-> lines]

\* The invocation ends here with this exit status
Exit(op, code, msg) ==
    /\ last' = [op |-> op, name |-> pc.name, description |-> pc.description,
                alias |-> Some(pc.alias), code |-> code, msg |-> msg, out |-> <<>>]
    /\ pc' = Idle

\* The names and --alias options the stepwise runs are given
StepArgs == { <<n_a, None>>, <<n_a_b, Some(n_ab)>>, <<n_ab, None>> }

\* Lines 62-83: why create refuses its arguments, <<0, "">> when it does not
create_refusal(d, f, name, alias_option) ==
    LET alias == IF alias_option # None THEN alias_option[1] ELSE name
        venv_path == join(path, name)
    IN  IF HasChar(" ", name)
        THEN <<1, "Error: Virtual environment names cannot contain spaces.">>
        ELSE IF ~isalnum(alias)
        THEN <<1, "Error: Aliases cannot contain spaces.">>
        ELSE IF exists(d, f, venv_path)
        THEN <<126, s_exists>>
        ELSE IF exists(d, f, alias_file) /\ isdir(d, alias_file)
        THEN <<1, "IsADirectoryError">>
        ELSE IF exists(d, f, alias_file) /\ alias_in_use(f, alias)
        THEN <<126, s_in_use>>
        ELSE <<0, "">>

\* Lines 29-30 and 58-83: the root is made, the arguments are checked
create_begin(name, description, alias_option) ==
    /\ pc = Idle
    /\ Cardinality(makedirs(cli(dirs), join(path, name)) \ {path}) <= MaxDirs
    /\ dirs' = cli(dirs)
    /\ UNCHANGED <<files, bash_aliases>>
    /\ \E r \in { create_refusal(cli(dirs), files, name, alias_option) } :
          IF r[1] # 0
          THEN /\ last' = [op |-> "create", name |-> name, description |-> None,
                           alias |-> alias_option, code |-> r[1], msg |-> r[2],
                           out |-> <<>>]
               /\ pc' = Idle
          ELSE /\ pc' = At("venv", name, description,
                           resolved_alias(name, alias_option), <<>>)
               /\ UNCHANGED last

\* Line 91/93: the entry directory is made, the directories above it first
create_mkdir ==
    /\ pc.step = "venv"
    /\ LET venv_path == join(path, pc.name)
           missing == Prefixes(venv_path) \ dirs
           q == CHOOSE x \in missing : \A y \in missing : Len(x) <= Len(y)
       IN  IF (Prefixes(venv_path) \cap DOMAIN files) # {}
           THEN /\ Exit("create", 1, "NotADirectoryError")
                /\ UNCHANGED <<dirs, files, bash_aliases>>
           ELSE /\ dirs' = dirs \cup {q}
                /\ pc' = IF q = venv_path THEN [pc EXCEPT !.step = "pip"] ELSE pc
                /\ UNCHANGED <<files, bash_aliases, last>>

\* Line 95: pip and setuptools are upgraded
create_pip ==
    /\ pc.step = "pip"
    /\ pc' = [pc EXCEPT !.step = "description"]
    /\ UNCHANGED <<dirs, files, bash_aliases, last>>

\* Lines 91 and 95: the venv or the pip subprocess ends with a nonzero status
create_subprocess_fails ==
    /\ pc.step \in {"venv", "pip"}
    /\ Exit("create", 1, "CalledProcessError")
    /\ UNCHANGED <<dirs, files, bash_aliases>>

\* Lines 97-99: the description record is written
create_write_description ==
    /\ pc.step = "description"
    /\ LET text == IF pc.description = None THEN s_no_description
                   ELSE pc.description[1]
       IN  files' = Put(files, description_record(join(path, pc.name)),
                        text \o <<"\n">>)
    /\ pc' = [pc EXCEPT !.step = "append"]
    /\ UNCHANGED <<dirs, bash_aliases, last>>

\* Lines 101-102: the alias line is appended to the alias table
create_append_alias ==
    /\ pc.step = "append"
    /\ IF isdir(dirs, alias_file)
       THEN /\ Exit("create", 1, "IsADirectoryError")
            /\ UNCHANGED <<dirs, files, bash_aliases>>
       ELSE /\ files' = AppendTo(files, alias_file,
                                 alias_line(pc.alias, join(path, pc.name)))
            /\ pc' = [pc EXCEPT !.step = "record"]
            /\ UNCHANGED <<dirs, bash_aliases, last>>

\* Lines 104-105: the alias record is written
create_write_alias_record ==
    /\ pc.step = "record"
    /\ files' = Put(files, alias_record(join(path, pc.name)), pc.alias \o <<"\n">>)
    /\ pc' = [pc EXCEPT !.step = "bootstrap"]
    /\ UNCHANGED <<dirs, bash_aliases, last>>

\* Lines 107-117: the source line is ensured in ~/.bash_aliases
create_bootstrap ==
    /\ pc.step = "bootstrap"
    /\ bash_aliases' = bootstrap(bash_aliases)
    /\ Exit("create", 0, "Done.")
    /\ UNCHANGED <<dirs, files>>

\* Lines 29-30 and 126-138: the root is made, the name is checked, the alias
\* record and the alias table are read
delete_begin(name) ==
    /\ pc = Idle
    /\ dirs' = cli(dirs)
    /\ UNCHANGED <<files, bash_aliases>>
    /\ \E o \in { delete_body(cli(dirs), files, bash_aliases, name) } :
          IF o.code # 0
          THEN /\ last' = Invocation("delete", name, None, None, o)
               /\ pc' = Idle
          ELSE /\ pc' = At("truncate", name, None, <<>>,
                           SelectLines(readlines(files[alias_file]),
                               alias_command(strip(files[alias_record(join(path, name))]),
                                             join(path, name))))
               /\ UNCHANGED last

\* Line 139: the alias table is opened for writing, which empties it
delete_truncate ==
    /\ pc.step = "truncate"
    /\ files' = Put(files, alias_file, <<>>)
    /\ pc' = [pc EXCEPT !.step = "writelines"]
    /\ UNCHANGED <<dirs, bash_aliases, last>>

\* Lines 140-141: the lines kept are written and the table is closed
delete_writelines ==
    /\ pc.step = "writelines"
    /\ files' = Put(files, alias_file, writelines(pc.lines))
    /\ pc' = [pc EXCEPT !.step = "rmtree"]
    /\ UNCHANGED <<dirs, bash_aliases, last>>

\* Line 143: shutil.rmtree unlinks a file below the entry directory
delete_unlink ==
    /\ pc.step = "rmtree"
    /\ \E x \in DOMAIN files :
          /\ Under(x, normpath(join(path, pc.name)))
          /\ files' = [y \in DOMAIN files \ {x} |-> files[y]]
    /\ UNCHANGED <<dirs, bash_aliases, last, pc>>

\* Line 143: shutil.rmtree removes a directory that has become empty, the
\* entry directory last
delete_rmdir ==
    /\ pc.step = "rmtree"
    /\ \E q \in dirs :
          /\ Under(q, normpath(join(path, pc.name)))
          /\ \A x \in (dirs \cup DOMAIN files) \ {q} : ~Under(x, q)
          /\ dirs' = dirs \ {q}
          /\ IF q = normpath(join(path, pc.name))
             THEN Exit("delete", 0, "Deleted")
             ELSE UNCHANGED <<last, pc>>
    /\ UNCHANGED <<files, bash_aliases>>

StepNext ==
    \/ \E a \in StepArgs, description \in Descriptions :
            create_begin(a[1], description, a[2])
    \/ create_mkdir
    \/ create_pip
    \/ create_subprocess_fails
    \/ create_write_description
    \/ create_append_alias
    \/ create_write_alias_record
    \/ create_bootstrap
    \/ \E a \in StepArgs : delete_begin(a[1])
    \/ delete_truncate
    \/ delete_writelines
    \/ delete_unlink
    \/ delete_rmdir

StepSpec == Init /\ [][StepNext]_vars

\* C15: at every step of every create and delete, each line of the alias table
\* is the alias line of a directory that exists; while delete removes the entry
\* directory the table has no line for it, and when create has appended the
\* alias line the entry directory exists.
C15_NoDanglingAlias ==
    LET t == AliasTable(files)
        venv_path == join(path, pc.name)
    IN  /\ \A i \in 1..Len(t) :
              \E p \in dirs : t[i] = alias_line(alias_token(t[i]), p)
        /\ pc.step = "rmtree" =>
              \A i \in 1..Len(t) : t[i] # alias_line(alias_token(t[i]), venv_path)
        /\ pc.step \in {"record", "bootstrap"} => venv_path \in dirs

====
